---- MODULE Spec2Model ----
(***************************************************************************)
(* advanced_thermo_storage.py: equilibrium thermodynamics of               *)
(* Ca(OH)2 <-> CaO + H2O (Van't Hoff pressure, its numeric inversion,      *)
(* energy density, round-trip efficiency) and the report run.              *)
(*                                                                         *)
(* Numbers.  Python floats are IEEE-754 binary64.  Two renderings are      *)
(* used, each where it decides something:                                  *)
(*                                                                         *)
(*  - energy_density_per_kg and round_trip_efficiency use only + - * /,    *)
(*    so they are computed bit for bit: a double is [m, e], value m * 2^e  *)
(*    with m a 53-bit integer held in limbs of 15 bits (TLC's integers are *)
(*    32 bits wide), every operation rounded to nearest, ties to even.     *)
(*    Exponent overflow and subnormals are outside the inputs drawn.       *)
(*                                                                         *)
(*  - p_eq and find_T_for_pressure go through np.exp and np.log.  They are *)
(*    computed in fixed point:                                             *)
(*      a temperature is an integer count of 1/TempScale kelvin, in which  *)
(*        np.linspace(300, 1200, 2000) is exact;                           *)
(*      a logarithm is an integer count of 1/LogScale (micro-nepers);      *)
(*      a pressure is 0.0 (pos = FALSE) or a positive double named by its  *)
(*        logarithm lg + k / PressPerLog: near the ends of the grid the    *)
(*        doubles holding p are denser than the doubles holding ln p (4 to *)
(*        30 times), so np.log sends several adjacent pressures to one     *)
(*        logarithm, and np.exp of a logarithm is one of them (k = 0).     *)
(*        np.exp underflows to 0.0 below ExpUnderflow.                     *)
(***************************************************************************)
EXTENDS Integers, Sequences, FiniteSets

VARIABLES
  Tpair,      \* p_eq harness: the two temperatures handed to p_eq
  Ppair,      \* p_eq harness: <<>> before the calls, <<p_eq(T1), p_eq(T2)>> after
  p_target,   \* finder harness: the argument of find_T_for_pressure
  frame,      \* finder harness: <<>> before the call, <<locals and return value>> after
  p_back,     \* finder harness: <<>>, or <<p_eq(T)>> of the returned temperature
  rargs,      \* efficiency harness: the arguments of round_trip_efficiency
  rte_ret,    \* efficiency harness: <<>>, or <<the returned ratio>>
  ed_rets,    \* efficiency harness: what each call of energy_density_per_kg returned
  pc,         \* run_simulation: the statement about to run
  dir_exists, \* filesystem: outputs/ is a directory
  files,      \* filesystem: the content of each path under outputs/
  written,    \* the paths this run has written
  replaced,   \* the paths this run has written over an earlier file
  Teq,        \* run_simulation: the list built by the comprehension of line 75
  ed,         \* run_simulation: local ed
  rte,        \* run_simulation: local rte
  console     \* what print() has put out

peqVars == <<Tpair, Ppair>>
finderVars == <<p_target, frame, p_back>>
energyVars == <<rargs, rte_ret, ed_rets>>
runVars == <<pc, dir_exists, files, written, replaced, Teq, ed, rte, console>>
vars == <<Tpair, Ppair, p_target, frame, p_back, rargs, rte_ret, ed_rets,
          pc, dir_exists, files, written, replaced, Teq, ed, rte, console>>

(***************************************************************************)
(* Bounds of the inputs drawn.                                             *)
(***************************************************************************)
\* p_eq harness: temperatures 25 K, 50 K, ... NTemps * 25 K
NTemps == 60
\* finder harness: targets spread half a neper apart from below p_eq(300)
NTargets == 72
\* finder harness: every HitStride-th grid sample is also a target
HitStride == 250
\* pressures (doubles) per logarithm (double): see the header
PressPerLog == 4
\* efficiency harness: calls of energy_density_per_kg
MaxEdCalls == 3

(***************************************************************************)
(* Natural numbers of any size: sequences of limbs, least significant      *)
(* first, no leading zero limb; <<>> is 0.                                 *)
(***************************************************************************)
LimbBits == 15
Base == 2 ^ LimbBits

RECURSIVE BNorm(_)
BNorm(a) == IF a = <<>> THEN a
            ELSE IF a[Len(a)] = 0 THEN BNorm(SubSeq(a, 1, Len(a) - 1)) ELSE a

Rest(a) == IF a = <<>> THEN a ELSE Tail(a)

Low(a) == IF a = <<>> THEN 0 ELSE Head(a)

RECURSIVE BAddC(_, _, _)
BAddC(a, b, c) ==
  IF a = <<>> /\ b = <<>> THEN (IF c = 0 THEN <<>> ELSE <<c>>)
  ELSE <<(Low(a) + Low(b) + c) % Base>>
       \o BAddC(Rest(a), Rest(b), (Low(a) + Low(b) + c) \div Base)

BAdd(a, b) == BAddC(a, b, 0)

RECURSIVE BSubC(_, _, _)
BSubC(a, b, c) ==
  IF a = <<>> THEN <<>>
  ELSE <<(Low(a) - Low(b) - c) % Base>>
       \o BSubC(Rest(a), Rest(b), IF Low(a) - Low(b) - c < 0 THEN 1 ELSE 0)

\* a - b for a >= b
BSub(a, b) == BNorm(BSubC(a, b, 0))

RECURSIVE BCmpFrom(_, _, _)
BCmpFrom(a, b, i) ==
  IF i = 0 THEN 0
  ELSE IF a[i] < b[i] THEN 0 - 1 ELSE IF a[i] > b[i] THEN 1 ELSE BCmpFrom(a, b, i - 1)

\* -1, 0, 1 as a < b, a = b, a > b
BCmp(a, b) ==
  IF Len(a) < Len(b) THEN 0 - 1 ELSE IF Len(a) > Len(b) THEN 1 ELSE BCmpFrom(a, b, Len(a))

RECURSIVE BMulSmallC(_, _, _)
BMulSmallC(a, k, c) ==
  IF a = <<>> THEN (IF c = 0 THEN <<>> ELSE <<c>>)
  ELSE <<(Head(a) * k + c) % Base>> \o BMulSmallC(Tail(a), k, (Head(a) * k + c) \div Base)

\* a * k for 0 <= k <= Base
BMulSmall(a, k) == IF k = 0 THEN <<>> ELSE BMulSmallC(a, k, 0)

ShiftLimb(a) == IF a = <<>> THEN a ELSE <<0>> \o a

RECURSIVE BMul(_, _)
BMul(a, b) == IF b = <<>> \/ a = <<>> THEN <<>>
              ELSE BAdd(BMulSmall(a, Head(b)), ShiftLimb(BMul(a, Tail(b))))

RECURSIVE IntBits(_)
IntBits(n) == IF n = 0 THEN 0 ELSE 1 + IntBits(n \div 2)

BitLen(a) == IF a = <<>> THEN 0 ELSE (Len(a) - 1) * LimbBits + IntBits(a[Len(a)])

RECURSIVE Zeros(_)
Zeros(n) == IF n = 0 THEN <<>> ELSE <<0>> \o Zeros(n - 1)

\* a * 2^n
BShl(a, n) ==
  IF a = <<>> THEN a ELSE Zeros(n \div LimbBits) \o BMulSmall(a, 2 ^ (n % LimbBits))

RECURSIVE BDivSmallFrom(_, _, _, _)
BDivSmallFrom(a, k, i, r) ==
  IF i = 0 THEN <<>>
  ELSE BDivSmallFrom(a, k, i - 1, (r * Base + a[i]) % k) \o <<(r * Base + a[i]) \div k>>

\* a \div k for 0 < k <= Base
BDivSmall(a, k) == BNorm(BDivSmallFrom(a, k, Len(a), 0))

\* a \div 2^n
BShr(a, n) ==
  IF n \div LimbBits >= Len(a) THEN <<>>
  ELSE BDivSmall(SubSeq(a, n \div LimbBits + 1, Len(a)), 2 ^ (n % LimbBits))

\* bit i of a
BBit(a, i) ==
  IF i \div LimbBits >= Len(a) THEN 0
  ELSE (a[i \div LimbBits + 1] \div (2 ^ (i % LimbBits))) % 2

\* a % 2^n = 0
BLowZero(a, n) ==
  /\ \A j \in 1..(n \div LimbBits) : j > Len(a) \/ a[j] = 0
  /\ (n \div LimbBits >= Len(a) \/ a[n \div LimbBits + 1] % (2 ^ (n % LimbBits)) = 0)

RECURSIVE QuotDigit(_, _, _, _)
\* the largest d < Base with d * b <= r, bit by bit from bit k down
QuotDigit(r, b, k, d) ==
  IF k < 0 THEN d
  ELSE IF BCmp(BMulSmall(b, d + 2 ^ k), r) <= 0 THEN QuotDigit(r, b, k - 1, d + 2 ^ k)
  ELSE QuotDigit(r, b, k - 1, d)

RECURSIVE BDivFrom(_, _, _)
\* quotient and remainder of the limbs i..Len(a) of a by b: long division
BDivFrom(a, b, i) ==
  IF i > Len(a) THEN [q |-> <<>>, r |-> <<>>]
  ELSE LET h == BDivFrom(a, b, i + 1)
           r1 == BNorm(<<a[i]>> \o h.r)
           d == QuotDigit(r1, b, LimbBits - 1, 0)
       IN [q |-> <<d>> \o h.q, r |-> BSub(r1, BMulSmall(b, d))]

BDivMod(a, b) == [q |-> BNorm(BDivFrom(a, b, 1).q), r |-> BDivFrom(a, b, 1).r]

RECURSIVE IntToBig(_)
IntToBig(n) == IF n = 0 THEN <<>> ELSE <<n % Base>> \o IntToBig(n \div Base)

RECURSIVE BigToInt(_)
BigToInt(a) == IF a = <<>> THEN 0 ELSE Head(a) + Base * BigToInt(Tail(a))

(***************************************************************************)
(* Fixed point.                                                            *)
(***************************************************************************)
LogScale == 10 ^ 6

\* Products of two 31-bit numbers do not fit TLC's 32-bit integers: a * b is
\* carried as quotient and remainder by c, [q, r] standing for q * c + r, r < c.
QRAdd(x, y, c) ==
  IF x.r >= c - y.r THEN [q |-> x.q + y.q + 1, r |-> x.r - (c - y.r)]
  ELSE [q |-> x.q + y.q, r |-> x.r + y.r]

QRZero == [q |-> 0, r |-> 0]

QRDouble(x, c) == QRAdd(x, x, c)

\* x * d for 0 <= d < 16
QRTimesDigit(x, d, c) ==
  LET b3 == IF d \div 8 = 1 THEN x ELSE QRZero
      b2 == IF (d \div 4) % 2 = 1 THEN x ELSE QRZero
      b1 == IF (d \div 2) % 2 = 1 THEN x ELSE QRZero
      b0 == IF d % 2 = 1 THEN x ELSE QRZero
  IN QRAdd(QRDouble(QRAdd(QRDouble(QRAdd(QRDouble(b3, c), b2, c), c), b1, c), c), b0, c)

RECURSIVE QRTimes(_, _, _)
\* x * b, by the hexadecimal digits of b
QRTimes(x, b, c) ==
  IF b = 0 THEN QRZero
  ELSE QRAdd(QRDouble(QRDouble(QRDouble(QRDouble(QRTimes(x, b \div 16, c), c), c), c), c),
             QRTimesDigit(x, b % 16, c), c)

\* quotient and remainder of a * b by c, for a, b >= 0 and c > 0
MulDivQR(a, b, c) ==
  IF c > 0 /\ a >= 0 /\ b >= 0
  THEN QRTimes([q |-> a \div c, r |-> a % c], b, c)
  ELSE QRZero

\* a * b / c rounded to nearest, for a, b >= 0 and c > 0
MulDivNear(a, b, c) ==
  LET h == MulDivQR(a, b, c) IN h.q + (IF h.r >= c - h.r THEN 1 ELSE 0)

Abs(x) == IF x < 0 THEN 0 - x ELSE x

np_sign(x) == IF x > 0 THEN 1 ELSE IF x < 0 THEN 0 - 1 ELSE 0

\* a * b / c rounded to nearest, any signs, c # 0
SMulDivNear(a, b, c) ==
  np_sign(a) * np_sign(b) * np_sign(c) * MulDivNear(Abs(a), Abs(b), Abs(c))

(***************************************************************************)
(* Module constants, lines 21-27.                                          *)
(***************************************************************************)
\* R = 8.314462618 J/(mol K), in units of 1e-8 (the ninth decimal rounded)
R == 831446262
\* delta_H = 104.4e3 J/mol
delta_H == 104400
\* delta_S = 143.8 J/(mol K), in tenths
delta_S == 1438
\* molar_mass = 74.09 g/mol, in hundredths
molar_mass == 7409

(***************************************************************************)
(* p_eq, lines 29-32.                                                      *)
(***************************************************************************)
\* np.linspace(300, 1200, 2000): the number of samples
NGrid == 2000
\* temperature units per kelvin: the grid step 900/1999 K is 90000 units
TempScale == (NGrid - 1) * 100

Kelvin(n) == n * TempScale

\* np.exp(x) is 0.0 for x below ln(2^-1075) = -745.133219...
ExpUnderflow == -745133219

\* the doubles p with np.log(p) = x: x + k / PressPerLog for k in PressOffsets
PressOffsets == (0 - (PressPerLog \div 2))..((PressPerLog - 1) \div 2)

\* a pressure: 0.0, or the positive double exp(lg + k / PressPerLog)
Zero == [pos |-> FALSE, lg |-> 0, k |-> 0]

Pressure(x, j) == [pos |-> TRUE, lg |-> x, k |-> j]

\* np.exp of a logarithm: a pressure
np_exp(x) == IF x < ExpUnderflow THEN Zero ELSE Pressure(x, 0)

\* np.log(0.0) is -inf
NegInf == 0 - (2 ^ 30)

\* np.log of a pressure: the nearest logarithm
np_log(p) == IF p.pos THEN p.lg ELSE NegInf

\* R * T in units of 1e-5 J/mol
RT(T) == MulDivNear(R, T, (10 ^ 3) * TempScale)

\* delta_H / (R * T) in units of 1/LogScale
HoverRT(T) == MulDivNear(delta_H * (10 ^ 4), 10 ^ 7, RT(T))

\* delta_S / R in units of 1/LogScale
SoverR == MulDivNear(delta_S * (10 ^ 6), 10 ^ 7, R)

\* a variant: the sign of the enthalpy term lost
ln_p_Plus(T) == HoverRT(T) + SoverR

\* line 31: ln_p = -delta_H / (R * T) + delta_S / R
ln_p(T) == (0 - HoverRT(T)) + SoverR

\* lines 29-32
p_eq(T) == np_exp(ln_p(T))

\* p < q for two pressures
PLess(p, q) ==
  IF ~q.pos THEN FALSE ELSE IF ~p.pos THEN TRUE
  ELSE p.lg < q.lg \/ (p.lg = q.lg /\ p.k < q.k)

(***************************************************************************)
(* find_T_for_pressure, lines 34-44.                                       *)
(***************************************************************************)
\* np.linspace(start, stop, num)[i], start and stop in kelvin
linspace(start, stop, num, i) ==
  IF i = num - 1 THEN Kelvin(stop)
  ELSE Kelvin(start) + MulDivNear(i, Kelvin(stop - start), num - 1)

\* line 35
Tgrid(i) == linspace(300, 1200, NGrid, i)

\* lines 36-37: np.log(pgrid), pgrid = p_eq(Tgrid)
log_pgrid == [i \in 0..(NGrid - 1) |-> np_log(p_eq(Tgrid(i)))]

\* line 37: diff[i]
diff(p, i) == log_pgrid[i] - np_log(p)

\* a variant: a strict sign change only (< 0)
idx_Strict(p) ==
  {i \in 0..(NGrid - 2) : np_sign(diff(p, i)) * np_sign(diff(p, i + 1)) < 0}

\* line 38: np.where(sign(diff[:-1]) * sign(diff[1:]) <= 0)[0], as a set
idx(p) ==
  {i \in 0..(NGrid - 2) : np_sign(diff(p, i)) * np_sign(diff(p, i + 1)) <= 0}

\* a variant: the last index, idx[-1]
first_Last(S) == CHOOSE i \in S : \A j \in S : j <= i

\* line 41: idx[0]; np.where lists the indices in increasing order
first(S) == CHOOSE i \in S : \A j \in S : i <= j

\* a variant: t1 + f1 * (t2 - t1) / (f2 - f1)
interpolate_Plus(t1, t2, f1, f2) ==
  IF f2 - f1 = 0 THEN [nan |-> TRUE, T |-> 0]
  ELSE [nan |-> FALSE, T |-> t1 + SMulDivNear(f1, t2 - t1, f2 - f1)]

\* a variant: the weight taken from the far end, t1 - f2 * (t2 - t1) / (f2 - f1)
interpolate_FarEnd(t1, t2, f1, f2) ==
  IF f2 - f1 = 0 THEN [nan |-> TRUE, T |-> 0]
  ELSE [nan |-> FALSE, T |-> t1 - SMulDivNear(f2, t2 - t1, f2 - f1)]

\* line 44: t1 - f1 * (t2 - t1) / (f2 - f1); a zero denominator gives nan or inf
interpolate(t1, t2, f1, f2) ==
  IF f2 - f1 = 0 THEN [nan |-> TRUE, T |-> 0]
  ELSE [nan |-> FALSE, T |-> t1 - SMulDivNear(f1, t2 - t1, f2 - f1)]

NoneFrame == [found |-> FALSE, n |-> 0, i |-> 0, t1 |-> 0, t2 |-> 0, f1 |-> 0, f2 |-> 0,
              nan |-> FALSE, T |-> 0]

\* lines 34-44: the locals at the return, and the value returned
\* (found = FALSE: None; otherwise T, or nan)
find_T_locals(p_t) ==
  LET S == idx(p_t) IN
  IF S = {} THEN NoneFrame
  ELSE LET i == first(S)
           r == interpolate(Tgrid(i), Tgrid(i + 1), diff(p_t, i), diff(p_t, i + 1))
       IN [found |-> TRUE, n |-> Cardinality(S), i |-> i,
           t1 |-> Tgrid(i), t2 |-> Tgrid(i + 1),
           f1 |-> diff(p_t, i), f2 |-> diff(p_t, i + 1),
           nan |-> r.nan, T |-> r.T]

\* the value returned: [found, nan, T]
find_T_for_pressure(p_t) ==
  LET fr == find_T_locals(p_t) IN [found |-> fr.found, nan |-> fr.nan, T |-> fr.T]

(***************************************************************************)
(* IEEE-754 binary64, non-negative values: [m, e] is m * 2^e, m of exactly *)
(* Prec bits, or 0.0.  Round to nearest, ties to even.                     *)
(***************************************************************************)
Prec == 53

FZero == [m |-> <<>>, e |-> 0]

\* the double nearest M * 2^E (sticky: the exact value is a little above M * 2^E)
FRound(M, E, sticky) ==
  IF M = <<>> THEN FZero
  ELSE IF BitLen(M) <= Prec
  THEN [m |-> BShl(M, Prec - BitLen(M)), e |-> E - (Prec - BitLen(M))]
  ELSE LET k == BitLen(M) - Prec
           q == BShr(M, k)
           up == BBit(M, k - 1) = 1 /\ (sticky \/ ~BLowZero(M, k - 1) \/ BBit(q, 0) = 1)
           q1 == IF up THEN BAdd(q, <<1>>) ELSE q
       IN IF BitLen(q1) > Prec THEN [m |-> BShr(q1, 1), e |-> E + k + 1]
          ELSE [m |-> q1, e |-> E + k]

\* x * y
FMul(x, y) == FRound(BMul(x.m, y.m), x.e + y.e, FALSE)

\* x + y
FAdd(x, y) ==
  IF x.m = <<>> THEN y ELSE IF y.m = <<>> THEN x
  ELSE IF x.e >= y.e THEN FRound(BAdd(BShl(x.m, x.e - y.e), y.m), y.e, FALSE)
  ELSE FRound(BAdd(BShl(y.m, y.e - x.e), x.m), x.e, FALSE)

\* x <= y
FLeq(x, y) ==
  IF x.m = <<>> THEN TRUE ELSE IF y.m = <<>> THEN FALSE
  ELSE x.e < y.e \/ (x.e = y.e /\ BCmp(x.m, y.m) <= 0)

\* x < y
FLess(x, y) == FLeq(x, y) /\ x # y

\* x - y for x >= y
FSub(x, y) ==
  IF y.m = <<>> THEN x ELSE FRound(BSub(BShl(x.m, x.e - y.e), y.m), y.e, FALSE)

\* x / y for y > 0
FDiv(x, y) ==
  IF x.m = <<>> THEN FZero
  ELSE LET h == BDivMod(BShl(x.m, Prec + 3), y.m)
       IN FRound(h.q, x.e - y.e - (Prec + 3), h.r # <<>>)

\* float(n) for an integer 0 <= n < 2^31
FromInt(n) == FRound(IntToBig(n), 0, FALSE)

\* the double of a decimal literal n/d (d a power of ten): the double nearest n/d
Dec(n, d) == FDiv(FromInt(n), FromInt(d))

\* 2^k
Pow2(k) == [m |-> BShl(<<1>>, Prec - 1), e |-> k - (Prec - 1)]

\* format(x, ".df") for s = 10^d: x * s rounded to an integer, ties to even
Fixed(x, s) ==
  IF x.m = <<>> THEN 0
  ELSE IF x.e >= 0 THEN BigToInt(BShl(BMulSmall(x.m, s), x.e))
  ELSE LET M == BMulSmall(x.m, s)
           k == 0 - x.e
           q == BShr(M, k)
           up == BBit(M, k - 1) = 1 /\ (~BLowZero(M, k - 1) \/ BBit(q, 0) = 1)
       IN BigToInt(q) + (IF up THEN 1 ELSE 0)

(***************************************************************************)
(* energy_density_per_kg, lines 46-48; round_trip_efficiency, lines 50-57. *)
(***************************************************************************)
\* a variant: joules per kWh taken as 3.6e3
energy_density_per_kg_Kilo ==
  FDiv(FMul(FromInt(delta_H), FDiv(FromInt(1000), Dec(molar_mass, 100))), FromInt(3600))

\* lines 47-48: mol_per_kg = 1000.0 / molar_mass; delta_H * mol_per_kg / 3.6e6
energy_density_per_kg ==
  FDiv(FMul(FromInt(delta_H), FDiv(FromInt(1000), Dec(molar_mass, 100))), FromInt(3600000))

\* a variant: energy_in and energy_out exchanged
round_trip_efficiency_Swapped(mass_kg, Cp, T_charge, T_discharge, T_ref) ==
  LET mol_per_kg == FDiv(FromInt(1000), Dec(molar_mass, 100))
      reaction_energy_J == FMul(FMul(FromInt(delta_H), mol_per_kg), mass_kg)
      sensible_in == FMul(FMul(Cp, mass_kg), FSub(T_charge, T_ref))
      sensible_out == FMul(FMul(Cp, mass_kg), FSub(T_discharge, T_ref))
      energy_in == FAdd(reaction_energy_J, sensible_in)
      energy_out == FAdd(reaction_energy_J, sensible_out)
  IN FDiv(energy_in, energy_out)

\* lines 50-57, for T_charge >= T_ref and T_discharge >= T_ref
round_trip_efficiency(mass_kg, Cp, T_charge, T_discharge, T_ref) ==
  LET mol_per_kg == FDiv(FromInt(1000), Dec(molar_mass, 100))
      reaction_energy_J == FMul(FMul(FromInt(delta_H), mol_per_kg), mass_kg)
      sensible_in == FMul(FMul(Cp, mass_kg), FSub(T_charge, T_ref))
      sensible_out == FMul(FMul(Cp, mass_kg), FSub(T_discharge, T_ref))
      energy_in == FAdd(reaction_energy_J, sensible_in)
      energy_out == FAdd(reaction_energy_J, sensible_out)
  IN FDiv(energy_out, energy_in)

\* the defaults of line 50
DefaultArgs == [mass_kg |-> FromInt(10), Cp |-> FromInt(900), T_charge |-> FromInt(900),
                T_discharge |-> FromInt(500), T_ref |-> Dec(29815, 100)]

(***************************************************************************)
(* run_simulation, lines 59-90.                                            *)
(***************************************************************************)
\* line 62: np.linspace(300, 1200, 500)
NPlot == 500
\* line 74: np.logspace(-4, 1, 200)
NPress == 200
\* ln 10 in units of 1/LogScale
Ln10 == 2302585

\* the positive double nearest exp(q / (LogScale * PressPerLog))
PressureOfCode(q) ==
  LET x == (q + (PressPerLog \div 2)) \div PressPerLog IN Pressure(x, q - x * PressPerLog)

\* np.logspace(lo, hi, NPress)[n] = 10 ** (lo + (hi - lo) * n / (NPress - 1))
logspace(lo, hi, n) ==
  PressureOfCode(SMulDivNear(lo * (NPress - 1) + (hi - lo) * n, Ln10 * PressPerLog, NPress - 1))

\* a variant: np.logspace(-14, 1, 200)
pressures_Wide(n) == logspace(0 - 14, 1, n)

\* line 74: pressures[n]
pressures(n) == logspace(0 - 4, 1, n)

P_EQ_PNG == "outputs/advanced_p_eq_vs_T.png"
TEQ_PNG == "outputs/advanced_Teq_vs_p.png"
SUMMARY_TXT == "outputs/advanced_summary.txt"
Paths == {P_EQ_PNG, TEQ_PNG, SUMMARY_TXT}

\* a path that does not exist
Absent == [kind |-> "absent", points |-> 0, gaps |-> 0, lines |-> <<>>]

\* a figure saved by plt.savefig: the samples plotted, and those with no place on the plot
Png(n, g) == [kind |-> "png", points |-> n, gaps |-> g, lines |-> <<>>]

\* a text file
Text(ls) == [kind |-> "text", points |-> 0, gaps |-> 0, lines |-> ls]

\* f"{label}{value:.df}{unit}\n" with scale = 10^d and digits = value * scale rounded
Line(label, x, scale, unit) ==
  [label |-> label, digits |-> Fixed(x, scale), scale |-> scale, unit |-> unit]

StaleLine == [label |-> "stale", digits |-> 0, scale |-> 1, unit |-> ""]

\* what an earlier run, of this or another version, may have left at a path
Stale(f) == IF f = SUMMARY_TXT THEN Text(<<StaleLine, StaleLine, StaleLine>>) ELSE Png(1, 0)

\* open(f, "w") ... or plt.savefig(f): the path holds the new content alone
WriteFile(f, content) ==
  /\ files' = [files EXCEPT ![f] = content]
  /\ written' = written \cup {f}
  /\ replaced' = replaced \cup (IF files[f].kind = "absent" THEN {} ELSE {f})

Raise ==
  /\ pc' = "raised"
  /\ UNCHANGED <<files, written, replaced>>

\* line 62-63: the samples of p_eq over np.linspace(300, 1200, 500) that are not positive
p_vals_gaps == Cardinality({i \in 0..(NPlot - 1) : ~p_eq(linspace(300, 1200, NPlot, i)).pos})

\* line 75: [find_T_for_pressure(p) for p in pressures], indexed from 0
Teq_list == [n \in 0..(NPress - 1) |-> find_T_for_pressure(pressures(n))]

\* line 86: round_trip_efficiency() with its defaults
rte_default ==
  round_trip_efficiency(DefaultArgs.mass_kg, DefaultArgs.Cp, DefaultArgs.T_charge,
                        DefaultArgs.T_discharge, DefaultArgs.T_ref)

\* a variant: the directory is not created
makedirs_Skipped ==
  /\ pc = "makedirs"
  /\ pc' = "plot1"
  /\ UNCHANGED <<dir_exists, files, written, replaced, Teq, ed, rte, console>>
  /\ UNCHANGED <<peqVars, finderVars, energyVars>>

\* line 60: os.makedirs("outputs", exist_ok=True)
makedirs ==
  /\ pc = "makedirs"
  /\ dir_exists' = TRUE
  /\ pc' = "plot1"
  /\ UNCHANGED <<files, written, replaced, Teq, ed, rte, console>>
  /\ UNCHANGED <<peqVars, finderVars, energyVars>>

\* lines 62-71: the first figure; savefig raises FileNotFoundError without the directory
plot_p_eq ==
  /\ pc = "plot1"
  /\ IF dir_exists
     THEN /\ WriteFile(P_EQ_PNG, Png(NPlot, p_vals_gaps))
          /\ pc' = "sweep"
     ELSE Raise
  /\ UNCHANGED <<dir_exists, Teq, ed, rte, console>>
  /\ UNCHANGED <<peqVars, finderVars, energyVars>>

\* lines 74-75: one more element of [find_T_for_pressure(p) for p in pressures]
sweep ==
  /\ pc = "sweep"
  /\ Len(Teq) < NPress
  /\ Teq' = Append(Teq, Teq_list[Len(Teq)])
  /\ pc' = IF Len(Teq) + 1 = NPress THEN "plot2" ELSE "sweep"
  /\ UNCHANGED <<dir_exists, files, written, replaced, ed, rte, console>>
  /\ UNCHANGED <<peqVars, finderVars, energyVars>>

\* lines 76-83: the second figure; a None or nan in Teq leaves a gap
plot_Teq ==
  /\ pc = "plot2"
  /\ IF dir_exists
     THEN /\ WriteFile(TEQ_PNG,
                Png(Len(Teq), Cardinality({n \in 1..Len(Teq) : ~Teq[n].found \/ Teq[n].nan})))
          /\ pc' = "energy"
     ELSE Raise
  /\ UNCHANGED <<dir_exists, Teq, ed, rte, console>>
  /\ UNCHANGED <<peqVars, finderVars, energyVars>>

\* lines 85-86
energy ==
  /\ pc = "energy"
  /\ ed' = energy_density_per_kg
  /\ rte' = rte_default
  /\ pc' = "summary"
  /\ UNCHANGED <<dir_exists, files, written, replaced, Teq, console>>
  /\ UNCHANGED <<peqVars, finderVars, energyVars>>

\* lines 87-89: open(..., "w") truncates; two lines are written
summary ==
  /\ pc = "summary"
  /\ IF dir_exists
     THEN /\ WriteFile(SUMMARY_TXT,
                Text(<<Line("Energy density (theoretical): ", ed, 10 ^ 4, " kWh/kg"),
                       Line("Simplified round-trip efficiency: ", rte, 10 ^ 3, "")>>))
          /\ pc' = "print"
     ELSE Raise
  /\ UNCHANGED <<dir_exists, Teq, ed, rte, console>>
  /\ UNCHANGED <<peqVars, finderVars, energyVars>>

\* line 90
print ==
  /\ pc = "print"
  /\ console' = Append(console, "Advanced simulation complete. Check outputs/.")
  /\ pc' = "done"
  /\ UNCHANGED <<dir_exists, files, written, replaced, Teq, ed, rte>>
  /\ UNCHANGED <<peqVars, finderVars, energyVars>>

(***************************************************************************)
(* The harnesses of the pure functions: Init draws the arguments, the      *)
(* actions call.                                                           *)
(***************************************************************************)
\* temperatures handed to p_eq
TestTemps ==
  {Kelvin(t) : t \in {8, 10, 12, 14, 16, 17, 18, 20}}
    \cup {Kelvin(25 * n) : n \in 1..NTemps}
    \cup {Tgrid(0), Tgrid(1), Tgrid(NGrid - 2), Tgrid(NGrid - 1)}

\* grid samples whose pressure is handed to the finder
HitIdx ==
  {0, 1, NGrid - 2, NGrid - 1} \cup {n * HitStride : n \in 1..((NGrid - 1) \div HitStride)}

\* pressures handed to the finder: the grid samples' own pressures, the doubles
\* around them, and a spread from exp(-26) to beyond p_eq(1200)
Targets ==
  {Pressure(log_pgrid[i], j) : i \in HitIdx, j \in PressOffsets}
    \cup {Pressure(log_pgrid[i] + d, 0) : i \in HitIdx, d \in {0 - 1, 1}}
    \cup {Pressure(n * (LogScale \div 2) - 26 * LogScale, 0) : n \in 0..NTargets}

\* arguments handed to round_trip_efficiency, every temperature above T_ref
ArgSet ==
  {DefaultArgs}
    \cup [mass_kg : {FromInt(1), FromInt(10)},
          Cp : {FromInt(900), Pow2(0 - 47)},
          T_charge : {FromInt(500), FromInt(900)},
          T_discharge : {FromInt(400), FromInt(500), FromInt(900)},
          T_ref : {Dec(29815, 100), Dec(27315, 100)}]

IdlePeq == Tpair = <<Kelvin(300), Kelvin(300)>> /\ Ppair = <<>>

IdleFinder == p_target = Pressure(0, 0) /\ frame = <<>> /\ p_back = <<>>

IdleEnergy == rargs = DefaultArgs /\ rte_ret = <<>> /\ ed_rets = <<>>

IdleRun ==
  /\ pc = "idle"
  /\ dir_exists = FALSE
  /\ files = [f \in Paths |-> Absent]
  /\ written = {}
  /\ replaced = {}
  /\ Teq = <<>>
  /\ ed = FZero
  /\ rte = FZero
  /\ console = <<>>

\* p_eq(T1) and p_eq(T2)
Call_p_eq ==
  /\ Ppair = <<>>
  /\ Ppair' = <<p_eq(Tpair[1]), p_eq(Tpair[2])>>
  /\ UNCHANGED <<Tpair, finderVars, energyVars, runVars>>

\* find_T_for_pressure(p_target)
Call_find_T_for_pressure ==
  /\ frame = <<>>
  /\ frame' = <<find_T_locals(p_target)>>
  /\ UNCHANGED <<p_target, p_back, peqVars, energyVars, runVars>>

\* p_eq of the temperature the finder returned
Call_p_eq_of_result ==
  /\ frame # <<>>
  /\ frame[1].found
  /\ ~frame[1].nan
  /\ p_back = <<>>
  /\ p_back' = <<p_eq(frame[1].T)>>
  /\ UNCHANGED <<p_target, frame, peqVars, energyVars, runVars>>

\* round_trip_efficiency(**rargs)
Call_round_trip_efficiency ==
  /\ rte_ret = <<>>
  /\ rte_ret' = <<round_trip_efficiency(rargs.mass_kg, rargs.Cp, rargs.T_charge,
                                        rargs.T_discharge, rargs.T_ref)>>
  /\ UNCHANGED <<rargs, ed_rets, peqVars, finderVars, runVars>>

\* energy_density_per_kg()
Call_energy_density_per_kg ==
  /\ Len(ed_rets) < MaxEdCalls
  /\ ed_rets' = Append(ed_rets, energy_density_per_kg)
  /\ UNCHANGED <<rargs, rte_ret, peqVars, finderVars, runVars>>

InitPeq ==
  /\ Tpair \in TestTemps \X TestTemps
  /\ Ppair = <<>>
  /\ IdleFinder /\ IdleEnergy /\ IdleRun

NextPeq == Call_p_eq

SpecPeq == InitPeq /\ [][NextPeq]_vars

InitFinder ==
  /\ p_target \in Targets
  /\ frame = <<>>
  /\ p_back = <<>>
  /\ IdlePeq /\ IdleEnergy /\ IdleRun

NextFinder == Call_find_T_for_pressure \/ Call_p_eq_of_result

SpecFinder == InitFinder /\ [][NextFinder]_vars

InitEnergy ==
  /\ rargs \in ArgSet
  /\ rte_ret = <<>>
  /\ ed_rets = <<>>
  /\ IdlePeq /\ IdleFinder /\ IdleRun

NextEnergy == Call_round_trip_efficiency \/ Call_energy_density_per_kg

SpecEnergy == InitEnergy /\ [][NextEnergy]_vars

\* the script is started with outputs/ absent, or present with any of the
\* three files left by an earlier run
InitRun ==
  /\ pc = "makedirs"
  /\ dir_exists \in BOOLEAN
  /\ files \in [Paths -> {Absent} \cup {Stale(f) : f \in Paths}]
  /\ \A f \in Paths : files[f] \in {Absent, Stale(f)}
  /\ ~dir_exists => \A f \in Paths : files[f] = Absent
  /\ written = {}
  /\ replaced = {}
  /\ Teq = <<>>
  /\ ed = FZero
  /\ rte = FZero
  /\ console = <<>>
  /\ IdlePeq /\ IdleFinder /\ IdleEnergy

NextRun == makedirs \/ plot_p_eq \/ sweep \/ plot_Teq \/ energy \/ summary \/ print

SpecRun == InitRun /\ [][NextRun]_vars

(***************************************************************************)
(* Properties.                                                             *)
(***************************************************************************)
One == FromInt(1)

\* the sign test of line 38 at the pair (i, i + 1)
Brackets(p, i) == np_sign(diff(p, i)) * np_sign(diff(p, i + 1)) <= 0

\* the ends of the finder's grid
P300 == p_eq(Kelvin(300))
P1200 == p_eq(Kelvin(1200))

\* line 74, every sample
pressure_samples == [n \in 0..(NPress - 1) |-> pressures(n)]

\* the three statements after the sweep, and the end
AfterSweep == {"plot2", "energy", "summary", "print", "done"}

\* C1: whenever find_T_for_pressure(p) returned a temperature T, p_eq(T) is
\* within 1% of p: ln(p_eq(T) / p) lies in [ln 0.99, ln 1.01] =
\* [-0.010050, 0.009950]
C1_RoundTrip ==
  p_back # <<>> =>
    /\ p_back[1].pos
    /\ (p_back[1].lg - p_target.lg) * PressPerLog + (p_back[1].k - p_target.k)
         >= (0 - 10050) * PressPerLog
    /\ (p_back[1].lg - p_target.lg) * PressPerLog + (p_back[1].k - p_target.k)
         <= 9950 * PressPerLog

\* a target strictly between two grid samples was inverted and fed back to p_eq
C1_Witness ==
  /\ p_back # <<>>
  /\ frame[1].f1 < 0
  /\ frame[1].f2 > 0
  /\ frame[1].T > frame[1].t1

\* C2 as stated: every p > 0 outside [p_eq(300), p_eq(1200)] gets None
C2_Original ==
  (frame # <<>> /\ (PLess(p_target, P300) \/ PLess(P1200, p_target)))
    => ~frame[1].found

\* C2, amended: a p whose logarithm np.log(p) is outside
\* [np.log(p_eq(300)), np.log(p_eq(1200))] gets None; a p outside the interval
\* whose logarithm is that of an end gets that end, 300 K or 1200 K
C2_OutsideByLogarithm ==
  frame # <<>> =>
    /\ (np_log(p_target) < np_log(P300) \/ np_log(p_target) > np_log(P1200))
         => ~frame[1].found
    /\ (PLess(p_target, P300) /\ np_log(p_target) = np_log(P300))
         => (frame[1].found /\ ~frame[1].nan /\ frame[1].T = Kelvin(300))
    /\ (PLess(P1200, p_target) /\ np_log(p_target) = np_log(P1200))
         => (frame[1].found /\ ~frame[1].nan /\ frame[1].T = Kelvin(1200))

\* a pressure above p_eq(1200) with a larger logarithm was refused
C2_Witness ==
  /\ frame # <<>>
  /\ np_log(p_target) > np_log(P1200)
  /\ ~frame[1].found

\* C3 as stated: the default efficiency is 0.93 to 0.94, and the summary says so
C3_Original ==
  pc = "done" =>
    /\ FLeq(Dec(93, 100), rte)
    /\ FLeq(rte, Dec(94, 100))
    /\ files[SUMMARY_TXT].lines[2].digits \in 925..944

\* C3, amended: round_trip_efficiency() with its defaults returns 0.81545...,
\* between 0.8154 and 0.8155, and the summary shows it as 0.815
C3_DefaultEfficiency ==
  /\ pc \in {"summary", "print", "done"}
       => (FLess(Dec(8154, 10000), rte) /\ FLess(rte, Dec(8155, 10000)))
  /\ pc \in {"print", "done"}
       => /\ files[SUMMARY_TXT].lines[2].label = "Simplified round-trip efficiency: "
          /\ files[SUMMARY_TXT].lines[2].digits = 815
          /\ files[SUMMARY_TXT].lines[2].scale = 1000

\* the report is complete
C3_Witness == pc = "done" /\ SUMMARY_TXT \in written /\ rte # FZero

C5_Safe ==
  /\ pc # "raised"
  /\ written # {} => dir_exists
  /\ pc = "done" =>
       /\ dir_exists
       /\ written = Paths
       /\ files[P_EQ_PNG].kind = "png"
       /\ files[TEQ_PNG].kind = "png"
       /\ files[SUMMARY_TXT].kind = "text"
       /\ Len(files[SUMMARY_TXT].lines) = 2
       /\ files[SUMMARY_TXT].lines[1].label = "Energy density (theoretical): "
       /\ files[SUMMARY_TXT].lines[1].unit = " kWh/kg"
       /\ files[SUMMARY_TXT].lines[2].label = "Simplified round-trip efficiency: "

\* the statements still ahead of the run, the sweep counted by its elements
StepsLeft ==
  (NPress - Len(Teq))
    + (CASE pc = "makedirs" -> 7 [] pc = "plot1" -> 6 [] pc = "sweep" -> 5
         [] pc = "plot2" -> 4 [] pc = "energy" -> 3 [] pc = "summary" -> 2
         [] pc = "print" -> 1 [] OTHER -> 0)

\* C5: from outputs/ absent or present, with or without earlier files, the run
\* never raises, writes nothing before outputs/ exists, and ends (a statement
\* can run until the end is reached, and each one leaves fewer to run) with
\* the two figures and a summary of exactly the two lines, earlier content gone
C5_RunCompletes ==
  /\ []C5_Safe
  /\ [](pc # "done" => ENABLED NextRun)
  /\ [][StepsLeft' < StepsLeft]_vars

\* a run that started on an earlier summary has ended
C5_Witness == pc = "done" /\ replaced = Paths

\* C6: every call of energy_density_per_kg() returns the same value,
\* delta_H * (1000 / molar_mass) / 3.6e6 = 0.39141..., 0.3914 to four places
C6_EnergyDensity ==
  \A n \in 1..Len(ed_rets) :
    /\ FLess(Dec(39141, 100000), ed_rets[n])
    /\ FLess(ed_rets[n], Dec(39142, 100000))
    /\ Fixed(ed_rets[n], 10 ^ 4) = 3914
    /\ ed_rets[n] = ed_rets[1]

\* energy_density_per_kg() was called more than once
C6_Witness == Len(ed_rets) >= 2

\* the precondition of C7 (mass_kg > 0 and Cp > 0 in every argument drawn)
C7_Pre ==
  /\ FLess(rargs.T_ref, rargs.T_charge)
  /\ FLess(rargs.T_ref, rargs.T_discharge)
  /\ FLeq(rargs.T_discharge, rargs.T_charge)
  /\ FLess(FZero, rargs.mass_kg)
  /\ FLess(FZero, rargs.Cp)

\* C7 as stated: the ratio is in (0, 1], and is 1 exactly when
\* T_discharge = T_charge
C7_Original ==
  (rte_ret # <<>> /\ C7_Pre) =>
    /\ FLess(FZero, rte_ret[1])
    /\ FLeq(rte_ret[1], One)
    /\ (rte_ret[1] = One) <=> (rargs.T_discharge = rargs.T_charge)

\* C7, amended: the ratio is in (0, 1], and is 1 whenever
\* T_discharge = T_charge (not only then)
C7_UnitInterval ==
  (rte_ret # <<>> /\ C7_Pre) =>
    /\ FLess(FZero, rte_ret[1])
    /\ FLeq(rte_ret[1], One)
    /\ (rargs.T_discharge = rargs.T_charge) => (rte_ret[1] = One)

\* a ratio below 1 was returned for T_discharge < T_charge
C7_Witness ==
  /\ rte_ret # <<>>
  /\ C7_Pre
  /\ FLess(rargs.T_discharge, rargs.T_charge)
  /\ FLess(rte_ret[1], One)

\* C8: None exactly when no pair passes the sign test; otherwise the pair used
\* is the first that passes, the value returned is the one interpolation
\* t1 - f1 * (t2 - t1) / (f2 - f1) over it, and a target that a grid sample
\* hits exactly gets that sample
C8_FirstBracket ==
  frame # <<>> =>
    /\ frame[1].found <=> (\E i \in 0..(NGrid - 2) : Brackets(p_target, i))
    /\ frame[1].found =>
         /\ Brackets(p_target, frame[1].i)
         /\ \A j \in 0..(frame[1].i - 1) : ~Brackets(p_target, j)
         /\ frame[1].t1 = Kelvin(300) + frame[1].i * ((Kelvin(1200) - Kelvin(300)) \div (NGrid - 1))
         /\ frame[1].t2 = frame[1].t1 + (Kelvin(1200) - Kelvin(300)) \div (NGrid - 1)
         /\ frame[1].f1 = log_pgrid[frame[1].i] - np_log(p_target)
         /\ frame[1].f2 = log_pgrid[frame[1].i + 1] - np_log(p_target)
         /\ ~frame[1].nan
         /\ frame[1].T = frame[1].t1
              + SMulDivNear(0 - frame[1].f1, frame[1].t2 - frame[1].t1,
                            frame[1].f2 - frame[1].f1)
    /\ \A k \in 0..(NGrid - 1) :
         log_pgrid[k] = np_log(p_target) => (frame[1].found /\ frame[1].T = Tgrid(k))

\* a grid sample inside the grid was hit exactly: two pairs pass the sign test
C8_Witness ==
  /\ frame # <<>>
  /\ frame[1].found
  /\ frame[1].n = 2
  /\ frame[1].f2 = 0

\* C9: every pressure of the sweep lies in [p_eq(300), p_eq(1200)], the finder
\* returns a temperature for each, and the list plotted has 200 entries,
\* none of them None
C9_SweepInside ==
  /\ \A n \in 0..(NPress - 1) :
       ~PLess(pressure_samples[n], P300) /\ ~PLess(P1200, pressure_samples[n])
  /\ \A n \in 1..Len(Teq) : Teq[n].found /\ ~Teq[n].nan
  /\ pc \in AfterSweep => Len(Teq) = NPress
  /\ TEQ_PNG \in written => (files[TEQ_PNG].points = NPress /\ files[TEQ_PNG].gaps = 0)

\* the second figure was saved from the full sweep
C9_Witness == TEQ_PNG \in written /\ Len(Teq) = NPress

\* C10: a returned temperature comes with f2 - f1 # 0 and lies in [t1, t2],
\* hence in [300, 1200]
C10_NoExtrapolation ==
  (frame # <<>> /\ frame[1].found) =>
    /\ frame[1].f2 - frame[1].f1 # 0
    /\ ~frame[1].nan
    /\ frame[1].t1 <= frame[1].T
    /\ frame[1].T <= frame[1].t2
    /\ Kelvin(300) <= frame[1].T
    /\ frame[1].T <= Kelvin(1200)

\* a temperature strictly inside its bracket was returned
C10_Witness ==
  /\ frame # <<>>
  /\ frame[1].found
  /\ frame[1].t1 < frame[1].T
  /\ frame[1].T < frame[1].t2

====
